---- MODULE Spec2Model ----
(***************************************************************************)
(* Model of saras-backend/index.js: the turn pipeline (handleTurn), the    *)
(* planner normalisation (llmPlan), the server-side validation             *)
(* (validateUpdate), the session store (SESSIONS / ensureSession) and the  *)
(* spreadsheet sink (presales, chat_log, the fixed leads row).             *)
(*                                                                         *)
(* Representation.  A JavaScript string is a sequence of one-character     *)
(* strings, so that the regular expressions of the validators are computed *)
(* character by character.  A string the code only copies or tests for     *)
(* emptiness (a prompt, the planner's assistant_text) is written as a      *)
(* sequence holding the whole literal as one element.  A character outside *)
(* ASCII is written by its code point, "U+0915".  Property names and       *)
(* conversation ids are compared for equality only and are TLA+ strings.   *)
(* Timestamps (new Date()), page and userAgent are copied to the sheet     *)
(* without being read and are left out of the rows.                        *)
(***************************************************************************)
EXTENDS Integers, Sequences, FiniteSets, TLC

\* ------------------------------------------------------------------------
\* Characters and strings
\* ------------------------------------------------------------------------
DigitChars == <<"0", "1", "2", "3", "4", "5", "6", "7", "8", "9">>

UpperChars ==
  <<"A", "B", "C", "D", "E", "F", "G", "H", "I", "J", "K", "L", "M",
    "N", "O", "P", "Q", "R", "S", "T", "U", "V", "W", "X", "Y", "Z">>

LowerChars ==
  <<"a", "b", "c", "d", "e", "f", "g", "h", "i", "j", "k", "l", "m",
    "n", "o", "p", "q", "r", "s", "t", "u", "v", "w", "x", "y", "z">>

\* Code points of the ranges ऀ-ॿ and ఀ-౿ used by the inputs.
IndicChars == {"U+0915", "U+092E", "U+0932", "U+0C15", "U+0C2E", "U+0C32"}

Range(f) == {f[i] : i \in DOMAIN f}

DigitSet == Range(DigitChars)

LatinSet == Range(UpperChars) \cup Range(LowerChars)

IsDigit(c) == c \in DigitSet

IsLatin(c) == c \in LatinSet

IsSpace(c) == c \in {" ", "\t", "\n", "\r"}

IsWordChar(c) == IsLatin(c) \/ IsDigit(c) \/ c = "_"

DigitVal(c) == (CHOOSE i \in DOMAIN DigitChars : DigitChars[i] = c) - 1

ToLowerChar(c) ==
  IF c \in Range(UpperChars)
    THEN LowerChars[CHOOSE i \in DOMAIN UpperChars : UpperChars[i] = c]
    ELSE c

toLowerCase(s) == [i \in 1..Len(s) |-> ToLowerChar(s[i])]

\* String.prototype.trim
trim(s) ==
  LET keep == {i \in 1..Len(s) : ~IsSpace(s[i])}
  IN  IF keep = {} THEN <<>>
      ELSE LET lo == CHOOSE i \in keep : \A j \in keep : i <= j
               hi == CHOOSE i \in keep : \A j \in keep : j <= i
           IN  SubSeq(s, lo, hi)

\* s.startsWith(w) at offset i (1-based)
MatchAt(s, i, w) ==
  /\ i >= 1
  /\ i + Len(w) - 1 <= Len(s)
  /\ SubSeq(s, i, i + Len(w) - 1) = w

\* RegExp.prototype.test for a pattern that is a literal word
Contains(s, w) == \E i \in 1..(Len(s) + 1) : MatchAt(s, i, w)

ContainsAny(s, words) == \E w \in words : Contains(s, w)

\* parseInt(digits, 10) for a run of decimal digits
RECURSIVE ParseDigits(_)
ParseDigits(d) ==
  IF d = <<>> THEN 0
  ELSE 10 * ParseDigits(SubSeq(d, 1, Len(d) - 1)) + DigitVal(d[Len(d)])

\* String(n) for an integer n
RECURSIVE NatToString(_)
NatToString(n) ==
  IF n < 10 THEN <<DigitChars[n + 1]>>
  ELSE NatToString(n \div 10) \o <<DigitChars[(n % 10) + 1]>>

IntToString(n) == IF n < 0 THEN <<"-">> \o NatToString(0 - n) ELSE NatToString(n)

\* ------------------------------------------------------------------------
\* JSON values (what JSON.parse returns)
\* ------------------------------------------------------------------------
JNull == [t |-> "null"]

JBool(b) == [t |-> "bool", b |-> b]

JNum(n) == [t |-> "num", n |-> n]

JStr(s) == [t |-> "str", s |-> s]

\* a: the sequence of the elements
JArr(a) == [t |-> "arr", a |-> a]

\* m: the own properties in enumeration order, as <<name, value>> pairs
JObj(m) == [t |-> "obj", m |-> m]

\* typeof v
typeof(v) ==
  CASE v.t \in {"null", "arr", "obj"} -> "object"
    [] v.t = "bool" -> "boolean"
    [] v.t = "num" -> "number"
    [] v.t = "str" -> "string"
    [] v.t = "undefined" -> "undefined"

Undefined == [t |-> "undefined"]

\* JavaScript truthiness
Truthy(v) ==
  CASE v.t \in {"null", "undefined"} -> FALSE
    [] v.t = "bool" -> v.b
    [] v.t = "num" -> v.n # 0
    [] v.t = "str" -> v.s # <<>>
    [] OTHER -> TRUE

\* json.name for an object; undefined when the property is missing
GetProp(json, name) ==
  IF json.t = "obj" /\ \E i \in 1..Len(json.m) : json.m[i][1] = name
    THEN json.m[CHOOSE i \in 1..Len(json.m) : json.m[i][1] = name][2]
    ELSE Undefined

\* The property name of array index i (0-based)
IndexKey(i) == DigitChars[i + 1]

\* Object.entries(v) for an object or an array
Entries(v) ==
  IF v.t = "arr" THEN [i \in 1..Len(v.a) |-> <<IndexKey(i - 1), v.a[i]>>]
  ELSE v.m

\* String(v)
RECURSIVE String(_)
RECURSIVE JoinArr(_)
JoinArr(a) ==
  IF a = <<>> THEN <<>>
  ELSE LET h == IF a[1].t \in {"null", "undefined"} THEN <<>> ELSE String(a[1])
       IN  IF Len(a) = 1 THEN h ELSE h \o <<",">> \o JoinArr(Tail(a))

String(v) ==
  CASE v.t = "str" -> v.s
    [] v.t = "num" -> IntToString(v.n)
    [] v.t = "null" -> <<"n", "u", "l", "l">>
    [] v.t = "undefined" -> <<"u", "n", "d", "e", "f", "i", "n", "e", "d">>
    [] v.t = "bool" -> IF v.b THEN <<"t", "r", "u", "e">>
                       ELSE <<"f", "a", "l", "s", "e">>
    [] v.t = "arr" -> JoinArr(v.a)
    [] v.t = "obj" -> <<"[", "o", "b", "j", "e", "c", "t", " ",
                        "O", "b", "j", "e", "c", "t", "]">>

\* ------------------------------------------------------------------------
\* Server-side validation (hard guard)
\* ------------------------------------------------------------------------
\* (iit[- ]?jee|jee|neet|sat|iit[- ]?foundation|foundation|ntse|olympiad|
\*  cbse|icse|ib|school), the alternatives spelled out
subjectWords ==
  { <<"i", "i", "t", "j", "e", "e">>,
    <<"i", "i", "t", "-", "j", "e", "e">>,
    <<"i", "i", "t", " ", "j", "e", "e">>,
    <<"j", "e", "e">>,
    <<"n", "e", "e", "t">>,
    <<"s", "a", "t">>,
    <<"i", "i", "t", "f", "o", "u", "n", "d", "a", "t", "i", "o", "n">>,
    <<"i", "i", "t", "-", "f", "o", "u", "n", "d", "a", "t", "i", "o", "n">>,
    <<"i", "i", "t", " ", "f", "o", "u", "n", "d", "a", "t", "i", "o", "n">>,
    <<"f", "o", "u", "n", "d", "a", "t", "i", "o", "n">>,
    <<"n", "t", "s", "e">>,
    <<"o", "l", "y", "m", "p", "i", "a", "d">>,
    <<"c", "b", "s", "e">>,
    <<"i", "c", "s", "e">>,
    <<"i", "b">>,
    <<"s", "c", "h", "o", "o", "l">> }

\* subjectRx.test(s), case-insensitive
subjectRx(s) == ContainsAny(toLowerCase(s), subjectWords)

dayWords ==
  { <<"m", "o", "n">>, <<"t", "u", "e">>, <<"w", "e", "d">>, <<"t", "h", "u">>,
    <<"f", "r", "i">>, <<"s", "a", "t">>, <<"s", "u", "n">> }

\* dayRx.test(s), case-insensitive
dayRx(s) == ContainsAny(toLowerCase(s), dayWords)

\* \b at offset p: between s[p-1] and s[p]
WordBoundary(s, p) ==
  LET before == p - 1 >= 1 /\ p - 1 <= Len(s) /\ IsWordChar(s[p - 1])
      after  == p >= 1 /\ p <= Len(s) /\ IsWordChar(s[p])
  IN  before # after

DigitsAt(s, i, n) ==
  /\ i + n - 1 <= Len(s)
  /\ \A j \in i..(i + n - 1) : IsDigit(s[j])

SpacesAt(s, i, n) ==
  /\ i + n - 1 <= Len(s)
  /\ \A j \in i..(i + n - 1) : IsSpace(s[j])

\* timeRx.test(s):  \b(\d{1,2})(:\d{2})?\s*(am|pm)?\b , case-insensitive
timeRx(s0) ==
  LET s == toLowerCase(s0)
  IN  \E i \in 1..Len(s) : \E n \in {1, 2} : \E mins \in {0, 3} :
      \E sp \in 0..Len(s) : \E ap \in {0, 2} :
        LET j == i + n
            k == j + mins
            l == k + sp
            e == l + ap
        IN  /\ WordBoundary(s, i)
            /\ DigitsAt(s, i, n)
            /\ mins = 3 => (MatchAt(s, j, <<":">>) /\ DigitsAt(s, j + 1, 2))
            /\ SpacesAt(s, k, sp)
            /\ ap = 2 => (MatchAt(s, l, <<"a", "m">>) \/ MatchAt(s, l, <<"p", "m">>))
            /\ WordBoundary(s, e)

\* const onlyDigits = (s='') => String(s).replace(/\D+/g,'')
onlyDigits(s) == SelectSeq(s, IsDigit)

FirstDigitRun_Last(s) ==
  LET ds == {i \in 1..Len(s) : IsDigit(s[i])}
  IN  IF ds = {} THEN <<>>
      ELSE LET hi == CHOOSE i \in ds : \A j \in ds : j <= i
               lo == CHOOSE i \in 1..hi :
                       /\ \A j \in i..hi : IsDigit(s[j])
                       /\ i = 1 \/ ~IsDigit(s[i - 1])
           IN  SubSeq(s, lo, hi)

\* String(value).match(/\d+/)?.[0] || ''
FirstDigitRun(s) ==
  LET ds == {i \in 1..Len(s) : IsDigit(s[i])}
  IN  IF ds = {} THEN <<>>
      ELSE LET lo == CHOOSE i \in ds : \A j \in ds : i <= j
               hi == CHOOSE i \in lo..Len(s) :
                       /\ \A j \in lo..i : IsDigit(s[j])
                       /\ i = Len(s) \/ ~IsDigit(s[i + 1])
           IN  SubSeq(s, lo, hi)

\* /[A-Za-zऀ-ॿఀ-౿]{3,}/.test(s)
HasLetterRun(s) ==
  \E i \in 1..(Len(s) - 2) :
    \A j \in i..(i + 2) : IsLatin(s[j]) \/ s[j] \in IndicChars

\* The language tags handleTurn passes on
Langs == {"en", "hi", "te"}

\* The table t of validateUpdate: the corrective prompts.  The Hindi and
\* Telugu texts are written by name.
PromptTable ==
  [ phone |->
      [ en |-> <<"Please share a valid 10-digit mobile number (digits only).">>,
        hi |-> <<"hi: phone prompt">>,
        te |-> <<"te: phone prompt">> ],
    grade |->
      [ en |-> <<"Which class is the student in? (1-12)">>,
        hi |-> <<"hi: grade prompt">>,
        te |-> <<"te: grade prompt">> ],
    mode |->
      [ en |-> <<"Do you prefer **online** (Zoom 1-on-1) or **home** (offline home tuition)?">>,
        hi |-> <<"hi: mode prompt">>,
        te |-> <<"te: mode prompt">> ],
    area |->
      [ en |-> <<"Please share your area/locality (e.g., Madhapur, Kondapur).">>,
        hi |-> <<"hi: area prompt">>,
        te |-> <<"te: area prompt">> ],
    schedule |->
      [ en |-> <<"What days and time work? (e.g., Mon-Fri 6-7pm)">>,
        hi |-> <<"hi: schedule prompt">>,
        te |-> <<"te: schedule prompt">> ] ]

\* t.key[lang] || t.key.en
Prompt(key, lang) ==
  IF lang \in DOMAIN PromptTable[key] THEN PromptTable[key][lang]
  ELSE PromptTable[key].en

Accept(v) == [ok |-> TRUE, value |-> v]

Reject(key, lang) == [ok |-> FALSE, prompt |-> Prompt(key, lang)]

validatePhone_AnyPrefix(value, lang) ==
  LET d == onlyDigits(String(value))
  IN  IF Len(d) = 10 THEN Accept(d)
      ELSE IF Len(d) = 12 THEN Accept(SubSeq(d, 3, 12))
      ELSE Reject("phone", lang)

validatePhone(value, lang) ==
  LET d == onlyDigits(String(value))
  IN  IF Len(d) = 10 THEN Accept(d)
      ELSE IF Len(d) = 12 /\ MatchAt(d, 1, <<"9", "1">>) THEN Accept(SubSeq(d, 3, 12))
      ELSE Reject("phone", lang)

validateGrade(value, lang) ==
  LET run == FirstDigitRun(String(value))
  IN  IF run # <<>> /\ ParseDigits(run) >= 1 /\ ParseDigits(run) <= 12
        THEN Accept(IntToString(ParseDigits(run)))
        ELSE Reject("grade", lang)

validateMode(value, lang) ==
  LET v == toLowerCase(String(value))
  IN  IF Contains(v, <<"h", "o", "m", "e">>) THEN Accept(<<"h", "o", "m", "e">>)
      ELSE IF \/ Contains(v, <<"o", "n", "l", "i", "n", "e">>)
              \/ Contains(v, <<"z", "o", "o", "m">>)
        THEN Accept(<<"o", "n", "l", "i", "n", "e">>)
      ELSE Reject("mode", lang)

validateArea(value, lang) ==
  LET s == trim(String(value))
  IN  IF subjectRx(s) THEN Reject("area", lang)
      ELSE IF HasLetterRun(s) THEN Accept(s)
      ELSE Reject("area", lang)

validateSchedule(value, lang) ==
  LET s == toLowerCase(String(value))
  IN  IF s \in {<<"o", "n", "l", "i", "n", "e">>, <<"h", "o", "m", "e">>}
        THEN Reject("schedule", lang)
      ELSE IF dayRx(s) \/ timeRx(s) THEN Accept(trim(String(value)))
      ELSE Reject("schedule", lang)

validateDefault(value) == Accept(trim(String(value)))

\* function validateUpdate(key, value, lang='en')
validateUpdate(key, value, lang) ==
  CASE key = "phone" -> validatePhone(value, lang)
    [] key = "grade" -> validateGrade(value, lang)
    [] key = "mode" -> validateMode(value, lang)
    [] key = "area" -> validateArea(value, lang)
    [] key = "schedule" -> validateSchedule(value, lang)
    [] OTHER -> validateDefault(value)

\* ------------------------------------------------------------------------
\* Planner output (llmPlan, after the request returned)
\* ------------------------------------------------------------------------
\* resp.choices?.[0]?.message?.content is one of
\*   [k |-> "absent"]            no content or the empty string
\*   [k |-> "garbage"]           a text JSON.parse throws on
\*   [k |-> "json", v |-> value] a text JSON.parse returns value for
ParseContent(content) ==
  CASE content.k = "absent" -> JObj(<<>>)
    [] content.k = "garbage" -> JObj(<<>>)
    [] content.k = "json" -> content.v

\* Lines 250-257 of llmPlan.  threw: reading a property of null raises a
\* TypeError that llmPlan does not catch.
llmPlan(content) ==
  LET parsed == ParseContent(content)
      json == IF typeof(parsed) # "object" \/ parsed.t = "arr"
                THEN JObj(<<>>) ELSE parsed
      u == GetProp(json, "updates")
      a == GetProp(json, "assistant_text")
      n == GetProp(json, "next_field")
      d == GetProp(json, "done")
  IN  IF json.t = "null" THEN [threw |-> TRUE]
      ELSE [ threw |-> FALSE,
             updates |-> IF ~Truthy(u) \/ typeof(u) # "object" THEN JObj(<<>>) ELSE u,
             assistant_text |-> IF typeof(a) # "string" THEN <<"Okay.">> ELSE a.s,
             next_field |-> IF typeof(n) # "string" THEN <<>> ELSE n.s,
             done |-> IF typeof(d) # "boolean" THEN FALSE ELSE d.b ]

\* ------------------------------------------------------------------------
\* Conversation state and the lead row
\* ------------------------------------------------------------------------
\* {}
EmptyObject == <<>>

\* Object.assign(target, source)
ObjectAssign(target, source) ==
  [k \in (DOMAIN target) \cup (DOMAIN source) |->
     IF k \in DOMAIN source THEN source[k] ELSE target[k]]

\* An ensureSession that sets a fresh session on every call
ensureSession_Reset(store, convId) ==
  [c \in (DOMAIN store) \cup {convId} |->
     IF c = convId THEN [answers |-> EmptyObject] ELSE store[c]]

\* function ensureSession(convId): the store after the call
ensureSession(store, convId) ==
  IF convId \in DOMAIN store THEN store
  ELSE [c \in (DOMAIN store) \cup {convId} |->
          IF c = convId THEN [answers |-> EmptyObject] ELSE store[c]]

\* answers.key || ''
Field(answers, key) == IF key \in DOMAIN answers THEN answers[key] ELSE <<>>

\* The keys of FIELDS_SPEC, in declaration order
FIELDS_SPEC ==
  <<"parent_name", "phone", "student_name", "grade", "subjects",
    "mode", "area", "schedule", "budget", "demo_consent">>

\* function composeLeadRow({ convId, answers }), without the timestamp
composeLeadRow(convId, answers) ==
  << convId,
     Field(answers, "parent_name"),
     Field(answers, "phone"),
     Field(answers, "student_name"),
     Field(answers, "grade"),
     Field(answers, "subjects"),
     Field(answers, "mode"),
     Field(answers, "area"),
     Field(answers, "schedule"),
     Field(answers, "budget"),
     Field(answers, "demo_consent") >>

\* ------------------------------------------------------------------------
\* handleTurn, lines 262-283: the code between two awaits is one step
\* ------------------------------------------------------------------------
\* const langHint = (lang === 'hi' || lang === 'te') ? lang : 'en'
langHint(lang) == IF lang \in {"hi", "te"} THEN lang ELSE "en"

\* [...messages].reverse().find((m) => m.role === 'user'); threw: messages is
\* not iterable, or a message read before the match is null
LastUser(messages) ==
  IF messages.t # "arr" THEN [threw |-> TRUE]
  ELSE LET users == {i \in 1..Len(messages.a) :
                       GetProp(messages.a[i], "role") = JStr(<<"user">>)}
           last == IF users = {} THEN 0
                   ELSE CHOOSE i \in users : \A j \in users : j <= i
       IN  IF \E i \in (last + 1)..Len(messages.a) : messages.a[i].t = "null"
             THEN [threw |-> TRUE]
           ELSE IF last = 0 THEN [threw |-> FALSE, content |-> <<>>]
           ELSE LET c == GetProp(messages.a[last], "content")
                IN  [threw |-> FALSE,
                     content |-> IF Truthy(c) THEN String(c) ELSE <<>>]

\* The loop of lines 269-275 from entry i on
RECURSIVE ValidateLoop(_, _, _, _)
ValidateLoop(entries, i, lang, acc) ==
  IF i > Len(entries) THEN acc
  ELSE LET r == validateUpdate(entries[i][1], entries[i][2], lang)
       IN  ValidateLoop(entries, i + 1, lang,
             IF r.ok
               THEN [acc EXCEPT !.validated =
                       ObjectAssign(@, (entries[i][1] :> r.value))]
               ELSE [acc EXCEPT !.badPrompt = r.prompt])

\* A loop that stores every proposed value as it came, without the guard
ValidateAll_Unchecked(updates, lang) ==
  [ validated |-> [k \in {Entries(updates)[i][1] : i \in 1..Len(Entries(updates))} |->
                     String(Entries(updates)[CHOOSE i \in 1..Len(Entries(updates)) :
                                               Entries(updates)[i][1] = k][2])],
    badPrompt |-> <<>> ]

\* A loop that stores '' for a rejected key
ValidateAll_ClearsRejected(updates, lang) ==
  LET e == Entries(updates)
      a == ValidateLoop(e, 1, lang, [validated |-> EmptyObject, badPrompt |-> <<>>])
      rej == {e[i][1] : i \in {j \in 1..Len(e) : ~validateUpdate(e[j][1], e[j][2], lang).ok}}
  IN  [a EXCEPT !.validated = ObjectAssign(@, [k \in rej |-> <<>>])]

\* A loop that ends at the first rejection
ValidateAll_StopAtRejection(updates, lang) ==
  LET e == Entries(updates)
      bad == {j \in 1..Len(e) : ~validateUpdate(e[j][1], e[j][2], lang).ok}
      n == IF bad = {} THEN Len(e) ELSE CHOOSE j \in bad : \A i \in bad : j <= i
  IN  ValidateLoop(SubSeq(e, 1, n), 1, lang,
                   [validated |-> EmptyObject, badPrompt |-> <<>>])

\* Lines 269-275: validated and badPrompt after the loop
ValidateAll(updates, lang) ==
  ValidateLoop(Entries(updates), 1, lang,
               [validated |-> EmptyObject, badPrompt |-> <<>>])

\* A merge that writes one accepted key only
MergeAnswers_OneKey(store, convId, validated) ==
  IF validated = EmptyObject THEN store
  ELSE LET k == CHOOSE k \in DOMAIN validated : TRUE
       IN  [store EXCEPT ![convId].answers = ObjectAssign(@, (k :> validated[k]))]

\* A merge into one answers object shared by all sessions
MergeAnswers_Shared(store, convId, validated) ==
  [c \in DOMAIN store |-> [answers |-> ObjectAssign(store[c].answers, validated)]]

\* A merge in which the values the Session has win
MergeAnswers_KeepExisting(store, convId, validated) ==
  [store EXCEPT ![convId].answers = ObjectAssign(validated, @)]

\* A merge that replaces the answers by the accepted updates
MergeAnswers_Replace(store, convId, validated) ==
  [store EXCEPT ![convId].answers = validated]

\* Line 276: the store after Object.assign(sess.answers, validated)
MergeAnswers(store, convId, validated) ==
  [store EXCEPT ![convId].answers = ObjectAssign(@, validated)]

\* Lines 279-280
PhoneClean(answers) ==
  LET phone10 == onlyDigits(Field(answers, "phone"))
  IN  IF Len(phone10) = 10 THEN phone10 ELSE <<>>

\* plan.assistant_text || badPrompt || 'Okay.'
ComposeReply_PlannerFirst(badPrompt, assistant_text) ==
  IF assistant_text # <<>> THEN assistant_text
  ELSE IF badPrompt # <<>> THEN badPrompt
  ELSE <<"Okay.">>

\* badPrompt || plan.assistant_text
ComposeReply_NoFallback(badPrompt, assistant_text) ==
  IF badPrompt # <<>> THEN badPrompt ELSE assistant_text

\* Line 283: badPrompt || plan.assistant_text || 'Okay.'
ComposeReply(badPrompt, assistant_text) ==
  IF badPrompt # <<>> THEN badPrompt
  ELSE IF assistant_text # <<>> THEN assistant_text
  ELSE <<"Okay.">>

\* ------------------------------------------------------------------------
\* Bounds and inputs
\* ------------------------------------------------------------------------
\* The number of requests; all of them may be in flight together
MaxTurns == 2

Turns == 1..MaxTurns

\* crypto.randomUUID() of the n-th request: a fresh id
UUIDs == <<"uuid-1", "uuid-2", "uuid-3", "uuid-4">>

Txt_phone_cc == <<"+", "9", "1", " ", "9", "8", "7", "6", "5", " ", "4", "3", "2", "1", "0">>

Txt_phone_10 == <<"9", "0", "0", "0", "0", "0", "0", "0", "0", "1">>

Txt_phone_short == <<"1", "2", "3", "4", "5">>

Txt_NEET == <<"N", "E", "E", "T">>

Txt_Madhapur == <<"M", "a", "d", "h", "a", "p", "u", "r">>

Txt_grade7 == <<"g", "r", "a", "d", "e", " ", "7">>

Txt_maybe == <<"m", "a", "y", "b", "e">>

Txt_Ravi == <<" ", "R", "a", "v", "i", " ">>

Txt_bar == <<"b", "a", "r">>

GoodMessages ==
  JArr(<< JObj(<< <<"role", JStr(<<"assistant">>)>>, <<"content", JStr(<<"Hello">>)>> >>),
          JObj(<< <<"role", JStr(<<"user">>)>>, <<"content", JStr(<<"hi there">>)>> >>) >>)

\* req.body of the requests: convId "" stands for a missing convId
Requests ==
  { [convId |-> "A", messages |-> GoodMessages, lang |-> "fr", stream |-> FALSE],
    [convId |-> "A", messages |-> GoodMessages, lang |-> "hi", stream |-> TRUE],
    [convId |-> "", messages |-> GoodMessages, lang |-> "hi", stream |-> FALSE],
    [convId |-> "A", messages |-> JNull, lang |-> "en", stream |-> FALSE],
    [convId |-> "", messages |-> JArr(<<JNull>>), lang |-> "hi", stream |-> TRUE] }

PlanBody(updates, text) ==
  [k |-> "json",
   v |-> JObj(<< <<"updates", updates>>, <<"assistant_text", JStr(text)>>,
                 <<"next_field", JStr(<<"grade">>)>>, <<"done", JBool(FALSE)>> >>)]

\* The message contents the planner request returns
Contents ==
  { PlanBody(JObj(<< <<"phone", JStr(Txt_phone_cc)>> >>),
             <<"Got it, what's the student's name?">>),
    PlanBody(JObj(<< <<"area", JStr(Txt_NEET)>> >>), <<"Thanks!">>),
    PlanBody(JObj(<< <<"grade", JStr(Txt_grade7)>>, <<"phone", JStr(Txt_phone_short)>>,
                     <<"mode", JStr(Txt_maybe)>>, <<"student_name", JStr(Txt_Ravi)>> >>),
             <<"Noted.">>),
    PlanBody(JObj(<< <<"grade", JNum(9)>>, <<"area", JStr(Txt_Madhapur)>> >>), <<>>),
    PlanBody(JObj(<< <<"foo", JStr(Txt_bar)>>, <<"phone", JStr(Txt_phone_10)>> >>),
             <<"Which class?">>),
    [k |-> "garbage"],
    [k |-> "json", v |-> JNull] }

\* The shapes of planner output: a property of the response body is missing,
\* or present with a value
Missing == [t |-> "missing"]

WithProp(m, name, v) == IF v = Missing THEN m ELSE Append(m, <<name, v>>)

ShapedBody(u, a, n, d) ==
  [k |-> "json",
   v |-> JObj(WithProp(WithProp(WithProp(WithProp(<<>>, "updates", u),
                "assistant_text", a), "next_field", n), "done", d))]

UpdatesShapes ==
  { Missing, JNull, JNum(0), JNum(3), JBool(TRUE), JStr(Txt_bar), JObj(<<>>),
    JArr(<<>>), JArr(<< JStr(Txt_bar) >>),
    JObj(<< <<"grade", JStr(Txt_grade7)>>, <<"area", JStr(Txt_NEET)>>,
            <<"phone", JStr(Txt_phone_10)>> >>) }

TextShapes == {Missing, JNull, JNum(1), JObj(<<>>), JStr(<<>>), JStr(<<"Hello!">>)}

FieldShapes == {Missing, JNum(2), JStr(<<"grade">>)}

DoneShapes == {Missing, JNull, JStr(<<"true">>), JNum(1), JBool(TRUE)}

ShapedContents ==
  { [k |-> "absent"], [k |-> "garbage"],
    [k |-> "json", v |-> JNull], [k |-> "json", v |-> JNum(5)],
    [k |-> "json", v |-> JBool(TRUE)], [k |-> "json", v |-> JStr(Txt_bar)],
    [k |-> "json", v |-> JArr(<<>>)],
    [k |-> "json", v |-> JArr(<< JObj(<< <<"updates", JObj(<<>>)>> >>) >>)] }
  \cup { ShapedBody(u, a, n, d) :
           u \in UpdatesShapes, a \in TextShapes, n \in FieldShapes, d \in DoneShapes }

\* llmPlan and the validation loop, tabulated over the inputs
PlanOf == [c \in Contents \cup ShapedContents |-> llmPlan(c)]

ValidatedOf ==
  [c \in Contents \cup ShapedContents, lang \in Langs |->
     IF PlanOf[c].threw THEN [validated |-> EmptyObject, badPrompt |-> <<>>]
     ELSE ValidateAll(PlanOf[c].updates, lang)]

\* ------------------------------------------------------------------------
\* validateUpdate on its own: the values it is called with
\* ------------------------------------------------------------------------
MaxDigits == 13

MaxGrade == 14

\* A digit string of n digits that starts with head
DigitString(head, n) ==
  [i \in 1..n |-> IF i <= Len(head) THEN head[i] ELSE DigitChars[((7 * i) % 10) + 1]]

PhoneHeads == { <<"9", "1">>, <<"9", "8">>, <<"1", "9">> }

PhoneStyles == {"plain", "cc", "dash", "words", "number"}

\* The digits from a to b of d, as far as d has them
Part(d, a, b) ==
  IF a > Len(d) THEN <<>> ELSE SubSeq(d, a, IF b > Len(d) THEN Len(d) ELSE b)

\* The value of key phone that a user writing the digits d in a style sends
PhoneValue(d, style) ==
  CASE style = "plain" -> JStr(d)
    [] style = "cc" ->
         JStr(<<"+">> \o Part(d, 1, 2) \o <<" ">> \o Part(d, 3, 7) \o <<" ">>
              \o Part(d, 8, Len(d)))
    [] style = "dash" -> JStr(Part(d, 1, 5) \o <<"-">> \o Part(d, 6, Len(d)))
    [] style = "words" ->
         JStr(<<"c", "a", "l", "l", " ">> \o d \o <<" ", "p", "l", "s">>)
    [] style = "number" ->
         IF Len(d) \in 1..9 THEN JNum(ParseDigits(d)) ELSE JNull

\* The digits that PhoneValue(d, style) holds
PhoneDigits(d, style) ==
  IF style = "number" /\ Len(d) \notin 1..9 THEN <<>> ELSE d

PhoneProbes ==
  { [key |-> "phone", raw |-> PhoneValue(DigitString(h, n), style), lang |-> lang,
     digits |-> PhoneDigits(DigitString(h, n), style), runs |-> <<>>, g |-> -1,
     called |-> FALSE, r |-> [ok |-> FALSE, prompt |-> <<>>]] :
      h \in PhoneHeads, n \in 0..MaxDigits, style \in PhoneStyles, lang \in Langs }

\* What stands before and after the class number in a value of key grade:
\* the text, and the numbers of the digit runs in it, left to right
GradeBefore ==
  { [text |-> <<>>, runs |-> <<>>],
    [text |-> <<"C", "l", "a", "s", "s", " ">>, runs |-> <<>>],
    [text |-> <<"x">>, runs |-> <<>>],
    [text |-> <<"b", "o", "r", "n", " ", "2", "0", "1", "2", ",", " ", "c", "l", "a",
                "s", "s", " ">>, runs |-> <<2012>>],
    [text |-> <<"5", " ", "o", "r", " ">>, runs |-> <<5>>] }

GradeAfter ==
  { [text |-> <<>>, runs |-> <<>>],
    [text |-> <<"t", "h">>, runs |-> <<>>],
    [text |-> <<" ", "o", "f", " ", "1", "3">>, runs |-> <<13>>],
    [text |-> <<",", " ", "a", "g", "e", " ", "9">>, runs |-> <<9>>] }

\* The ways of writing the integer g
GradeForms == {"decimal", "zero", "number"}

GradeValue(g, form, before, after) ==
  CASE form = "decimal" -> JStr(before.text \o IntToString(g) \o after.text)
    [] form = "zero" -> JStr(before.text \o <<"0">> \o IntToString(g) \o after.text)
    [] form = "number" -> JNum(g)

GradeRuns(g, form, before, after) ==
  IF form = "number" THEN <<g>> ELSE before.runs \o <<g>> \o after.runs

\* Values of key grade without a digit
NoDigitValues ==
  { JStr(<<"t", "h", "i", "r", "t", "e", "e", "n">>), JStr(<<>>), JNull,
    JStr(<<"U+0967", "U+0968">>) }

GradeProbes ==
  { [key |-> "grade", raw |-> GradeValue(g, form, b, a), lang |-> lang,
     digits |-> <<>>, runs |-> GradeRuns(g, form, b, a), g |-> g,
     called |-> FALSE, r |-> [ok |-> FALSE, prompt |-> <<>>]] :
      g \in 0..MaxGrade, form \in GradeForms, b \in GradeBefore, a \in GradeAfter,
      lang \in Langs }
  \cup
  { [key |-> "grade", raw |-> v, lang |-> lang, digits |-> <<>>, runs |-> <<>>,
     g |-> -1, called |-> FALSE, r |-> [ok |-> FALSE, prompt |-> <<>>]] :
      v \in NoDigitValues, lang \in Langs }

Probes == PhoneProbes \cup GradeProbes

\* ------------------------------------------------------------------------
\* State
\* ------------------------------------------------------------------------
VARIABLES
  sheets,     \* the Sheets client is configured (hasSheets)
  SESSIONS,   \* convId -> [answers]
  presales,   \* the rows of the presales tab
  chat_log,   \* the rows of the chat_log tab
  leads,      \* the fixed row of the leads tab
  pc,         \* where each request is suspended
  local,      \* the locals of each request's handleTurn
  merges,     \* how often each request ran line 276
  io,         \* the sink calls each request awaited, with their outcome
  res,        \* the response of each request
  nStarted,   \* the number of requests received
  probe       \* one call of validateUpdate on its own: its arguments and result

vars == <<sheets, SESSIONS, presales, chat_log, leads, pc, local, merges, io, res,
          nStarted, probe>>

NoResponse == [status |-> 0, kind |-> "none", xConvId |-> "", body |-> <<>>]

\* No call of validateUpdate on its own
NoProbe ==
  [key |-> "", raw |-> JNull, lang |-> "en", digits |-> <<>>, runs |-> <<>>, g |-> -1,
   called |-> FALSE, r |-> [ok |-> FALSE, prompt |-> <<>>]]

NoLocal ==
  [ convId |-> "", langHint |-> "en", resStream |-> FALSE, lastUser |-> <<>>,
    knownAnswers |-> EmptyObject,
    before |-> EmptyObject,   \* sess.answers as line 276 found it
    content |-> [k |-> "none"], error |-> "",
    plan |-> [threw |-> TRUE],
    badPrompt |-> <<>>, validated |-> EmptyObject,
    phoneClean |-> <<>>, reply |-> <<>>, row |-> <<>> ]

Init ==
  /\ sheets \in BOOLEAN
  /\ SESSIONS = <<>>
  /\ presales = <<>>
  /\ chat_log = <<>>
  /\ leads = <<>>
  /\ pc = [t \in Turns |-> "idle"]
  /\ local = [t \in Turns |-> NoLocal]
  /\ merges = [t \in Turns |-> 0]
  /\ io = [t \in Turns |-> <<>>]
  /\ res = [t \in Turns |-> NoResponse]
  /\ nStarted = 0
  /\ probe = NoProbe

\* ------------------------------------------------------------------------
\* Responses
\* ------------------------------------------------------------------------
\* The catch blocks of the routes, lines 311-314 and 326-329.  The streaming
\* route has sent no status: the write goes out with the default 200.
FailureResponse(convId, stream) ==
  IF stream
    THEN [status |-> 200, kind |-> "sse", xConvId |-> convId,
          body |-> <<[comment |-> "error"]>>]
    ELSE [status |-> 500, kind |-> "json", xConvId |-> convId,
          body |-> [error |-> "chat_failed"]]

\* Lines 293-298 and res.json(out)
TurnResponse(l, store) ==
  IF l.resStream
    THEN [status |-> 200, kind |-> "sse", xConvId |-> l.convId,
          body |-> <<[data |-> [reply |-> l.reply, convId |-> l.convId]]>>]
    ELSE [status |-> 200, kind |-> "json", xConvId |-> l.convId,
          body |-> [reply |-> l.reply, convId |-> l.convId,
                    answers |-> store[l.convId].answers]]

\* A try block without its catch: the failure reaches the route
OnSinkFailure_Uncaught(l, store) == FailureResponse(l.convId, l.resStream)

\* Lines 291-298: the catch of the try block swallows the failure of a sink
\* call and the response is written
OnSinkFailure(l, store) == TurnResponse(l, store)

\* The rows appendChatLog writes (role user, then role assistant)
ChatRow(l, role) ==
  << l.convId, role, IF role = "user" THEN l.lastUser ELSE l.reply,
     l.phoneClean, l.langHint >>

PresalesRow(l) == <<l.phoneClean, "phone", l.phoneClean, "chat">>

\* ------------------------------------------------------------------------
\* The requests.  A step is the code a request runs between two awaits.
\* ------------------------------------------------------------------------
\* A sink call can fail only when it is made: appendRow and
\* updateLeadFixedRow return at once when sheets is null.
Outcomes == IF sheets THEN {TRUE, FALSE} ELSE {TRUE}

\* The route (lines 304-309 or 317-325) and handleTurn up to the await of the
\* planner request (lines 262-266, 224-239)
Receive(t, r) ==
  /\ pc[t] = "idle"
  /\ t = nStarted + 1
  /\ nStarted' = nStarted + 1
  /\ LET cid == IF r.convId = "" THEN UUIDs[t] ELSE r.convId
         store == ensureSession(SESSIONS, cid)
         lu == LastUser(r.messages)
     IN  /\ SESSIONS' = store
         /\ IF lu.threw
              THEN /\ pc' = [pc EXCEPT ![t] = "done"]
                   /\ res' = [res EXCEPT ![t] = FailureResponse(cid, r.stream)]
                   /\ local' = [local EXCEPT ![t] =
                        [NoLocal EXCEPT !.convId = cid,
                                        !.langHint = langHint(r.lang),
                                        !.resStream = r.stream,
                                        !.error = "messages"]]
              ELSE /\ pc' = [pc EXCEPT ![t] = "llm"]
                   /\ res' = res
                   /\ local' = [local EXCEPT ![t] =
                        [NoLocal EXCEPT !.convId = cid,
                                        !.langHint = langHint(r.lang),
                                        !.resStream = r.stream,
                                        !.lastUser = lu.content,
                                        !.knownAnswers = store[cid].answers]]
  /\ UNCHANGED <<probe, sheets, presales, chat_log, leads, merges, io>>

\* client.chat.completions.create rejects (line 239): nothing in llmPlan or
\* handleTurn catches it, the route's catch answers
PlannerThrows(t) ==
  /\ pc[t] = "llm"
  /\ pc' = [pc EXCEPT ![t] = "done"]
  /\ res' = [res EXCEPT ![t] = FailureResponse(local[t].convId, local[t].resStream)]
  /\ local' = [local EXCEPT ![t].error = "planner"]
  /\ UNCHANGED <<probe, sheets, SESSIONS, presales, chat_log, leads, merges, io, nStarted>>

\* Line 283 and the call of line 286
ReplyAndLogUser_StreamPlannerText(l) ==
  [l EXCEPT !.reply = IF l.resStream THEN ComposeReply(<<>>, l.plan.assistant_text)
                      ELSE ComposeReply(l.badPrompt, l.plan.assistant_text)]

ReplyAndLogUser(l) ==
  [l EXCEPT !.reply = ComposeReply(l.badPrompt, l.plan.assistant_text)]

\* The planner request returns content: lines 250-257, 269-281
PlannerReturns(t, content) ==
  /\ pc[t] = "llm"
  /\ LET l == local[t]
         plan == PlanOf[content]
     IN  IF plan.threw
           THEN /\ pc' = [pc EXCEPT ![t] = "done"]
                /\ res' = [res EXCEPT ![t] = FailureResponse(l.convId, l.resStream)]
                /\ local' = [local EXCEPT ![t].content = content,
                                           ![t].error = "llmPlan"]
                /\ UNCHANGED <<SESSIONS, merges>>
           ELSE LET v == ValidatedOf[content, l.langHint]
                    store == MergeAnswers(SESSIONS, l.convId, v.validated)
                    phoneClean == PhoneClean(store[l.convId].answers)
                    l1 == [l EXCEPT !.before = SESSIONS[l.convId].answers,
                                    !.content = content,
                                    !.plan = plan,
                                    !.badPrompt = v.badPrompt,
                                    !.validated = v.validated,
                                    !.phoneClean = phoneClean]
                IN  /\ SESSIONS' = store
                    /\ merges' = [merges EXCEPT ![t] = @ + 1]
                    /\ res' = res
                    /\ IF phoneClean # <<>>
                         THEN /\ pc' = [pc EXCEPT ![t] = "presales"]
                              /\ local' = [local EXCEPT ![t] = l1]
                         ELSE /\ pc' = [pc EXCEPT ![t] = "log_user"]
                              /\ local' = [local EXCEPT ![t] = ReplyAndLogUser(l1)]
  /\ UNCHANGED <<probe, sheets, presales, chat_log, leads, io, nStarted>>

\* The await of appendPresales ends (line 281); its failure is caught there
PresalesDone(t, ok) ==
  /\ pc[t] = "presales"
  /\ ok \in Outcomes
  /\ presales' = IF sheets /\ ok THEN Append(presales, PresalesRow(local[t]))
                 ELSE presales
  /\ io' = [io EXCEPT ![t] = Append(@, [call |-> "presales", ok |-> ok])]
  /\ local' = [local EXCEPT ![t] = ReplyAndLogUser(@)]
  /\ pc' = [pc EXCEPT ![t] = "log_user"]
  /\ UNCHANGED <<probe, sheets, SESSIONS, chat_log, leads, merges, res, nStarted>>

\* The first appendChatLog in a try of its own: the second follows a failure
LogUserDone_Continue(t, ok) ==
  /\ pc[t] = "log_user"
  /\ ok \in Outcomes
  /\ io' = [io EXCEPT ![t] = Append(@, [call |-> "log_user", ok |-> ok])]
  /\ chat_log' = IF sheets /\ ok THEN Append(chat_log, ChatRow(local[t], "user"))
                 ELSE chat_log
  /\ pc' = [pc EXCEPT ![t] = "log_asst"]
  /\ res' = res
  /\ UNCHANGED <<probe, sheets, SESSIONS, presales, leads, local, merges, nStarted>>

\* The await of the first appendChatLog ends (line 286).  A failure leaves
\* the try block (line 291) and the response is written (lines 293-298)
LogUserDone(t, ok) ==
  /\ pc[t] = "log_user"
  /\ ok \in Outcomes
  /\ io' = [io EXCEPT ![t] = Append(@, [call |-> "log_user", ok |-> ok])]
  /\ IF ok
       THEN /\ chat_log' = IF sheets THEN Append(chat_log, ChatRow(local[t], "user"))
                           ELSE chat_log
            /\ pc' = [pc EXCEPT ![t] = "log_asst"]
            /\ res' = res
       ELSE /\ chat_log' = chat_log
            /\ pc' = [pc EXCEPT ![t] = "done"]
            /\ res' = [res EXCEPT ![t] = OnSinkFailure(local[t], SESSIONS)]
  /\ UNCHANGED <<probe, sheets, SESSIONS, presales, leads, local, merges, nStarted>>

\* The await of the second appendChatLog ends (line 287); on success
\* updateLeadFixedRow composes its row and sends it (lines 290, 115-120)
LogAsstDone(t, ok) ==
  /\ pc[t] = "log_asst"
  /\ ok \in Outcomes
  /\ io' = [io EXCEPT ![t] = Append(@, [call |-> "log_asst", ok |-> ok])]
  /\ IF ok
       THEN /\ chat_log' = IF sheets THEN Append(chat_log, ChatRow(local[t], "assistant"))
                           ELSE chat_log
            /\ local' = [local EXCEPT ![t].row =
                 IF sheets
                   THEN composeLeadRow(local[t].convId, SESSIONS[local[t].convId].answers)
                   ELSE <<>>]
            /\ pc' = [pc EXCEPT ![t] = "lead"]
            /\ res' = res
       ELSE /\ chat_log' = chat_log
            /\ local' = local
            /\ pc' = [pc EXCEPT ![t] = "done"]
            /\ res' = [res EXCEPT ![t] = OnSinkFailure(local[t], SESSIONS)]
  /\ UNCHANGED <<probe, sheets, SESSIONS, presales, leads, merges, nStarted>>

\* The await of updateLeadFixedRow ends (line 290); the response is written
LeadDone(t, ok) ==
  /\ pc[t] = "lead"
  /\ ok \in Outcomes
  /\ io' = [io EXCEPT ![t] = Append(@, [call |-> "lead", ok |-> ok])]
  /\ leads' = IF sheets /\ ok THEN local[t].row ELSE leads
  /\ pc' = [pc EXCEPT ![t] = "done"]
  /\ res' = [res EXCEPT ![t] = IF ok THEN TurnResponse(local[t], SESSIONS)
                                ELSE OnSinkFailure(local[t], SESSIONS)]
  /\ UNCHANGED <<probe, sheets, SESSIONS, presales, chat_log, local, merges, nStarted>>

Next ==
  \E t \in Turns :
    \/ \E r \in Requests : Receive(t, r)
    \/ PlannerThrows(t)
    \/ \E content \in Contents : PlannerReturns(t, content)
    \/ \E ok \in BOOLEAN : PresalesDone(t, ok)
    \/ \E ok \in BOOLEAN : LogUserDone(t, ok)
    \/ \E ok \in BOOLEAN : LogAsstDone(t, ok)
    \/ \E ok \in BOOLEAN : LeadDone(t, ok)

Spec == Init /\ [][Next]_vars

TypeOK ==
  /\ sheets \in BOOLEAN
  /\ nStarted \in 0..MaxTurns
  /\ \A t \in Turns :
       /\ pc[t] \in {"idle", "llm", "presales", "log_user", "log_asst", "lead", "done"}
       /\ merges[t] \in 0..1
       /\ (pc[t] = "done") = (res[t] # NoResponse)

\* ------------------------------------------------------------------------
\* One request against every shape of planner output
\* ------------------------------------------------------------------------
NextShapes ==
  \E t \in {1} :
    \/ \E r \in Requests : Receive(t, r)
    \/ PlannerThrows(t)
    \/ \E content \in ShapedContents : PlannerReturns(t, content)
    \/ \E ok \in BOOLEAN : PresalesDone(t, ok)
    \/ \E ok \in BOOLEAN : LogUserDone(t, ok)
    \/ \E ok \in BOOLEAN : LogAsstDone(t, ok)
    \/ \E ok \in BOOLEAN : LeadDone(t, ok)

SpecShapes == Init /\ [][NextShapes]_vars

\* validateUpdate called on its own with one value
InitValidate ==
  /\ sheets = FALSE
  /\ SESSIONS = <<>>
  /\ presales = <<>>
  /\ chat_log = <<>>
  /\ leads = <<>>
  /\ pc = [t \in Turns |-> "idle"]
  /\ local = [t \in Turns |-> NoLocal]
  /\ merges = [t \in Turns |-> 0]
  /\ io = [t \in Turns |-> <<>>]
  /\ res = [t \in Turns |-> NoResponse]
  /\ nStarted = 0
  /\ probe \in Probes

Validate ==
  /\ ~probe.called
  /\ probe' = [probe EXCEPT !.called = TRUE,
                            !.r = validateUpdate(probe.key, probe.raw, probe.lang)]
  /\ UNCHANGED <<sheets, SESSIONS, presales, chat_log, leads, pc, local, merges, io, res,
                 nStarted>>

NextValidate == Validate

SpecValidate == InitValidate /\ [][NextValidate]_vars

\* ------------------------------------------------------------------------
\* Properties
\* ------------------------------------------------------------------------
SinkSteps == {"presales", "log_user", "log_asst", "lead"}

\* The request got a reply: a JSON body with a reply, or a data event
IsSuccess(r) ==
  /\ r.status = 200
  /\ \/ r.kind = "json" /\ "reply" \in DOMAIN r.body
     \/ r.kind = "sse" /\ "data" \in DOMAIN r.body[1]

DeliveredReply(r) == IF r.kind = "json" THEN r.body.reply ELSE r.body[1].data.reply

Answers(c) == SESSIONS[c].answers

\* The <<key, value>> pairs the planner outputs of Contents propose
ProposedPairs ==
  UNION { Range(Entries(llmPlan(c).updates)) : c \in {x \in Contents : ~llmPlan(x).threw} }

\* The <<key, normalized value>> pairs validateUpdate accepts them with
AcceptedPairs ==
  { <<e[1], validateUpdate(e[1], e[2], lang).value>> :
      <<e, lang>> \in {x \in ProposedPairs \X Langs : validateUpdate(x[1][1], x[1][2], x[2]).ok} }

\* The entries of the plan that validateUpdate rejects, by position
Rejected(plan, lang) ==
  {i \in 1..Len(Entries(plan.updates)) :
     ~validateUpdate(Entries(plan.updates)[i][1], Entries(plan.updates)[i][2], lang).ok}

\* validateUpdate accepts a normalized value for its key as it is
AcceptedPairsAccepted ==
  \A p \in AcceptedPairs : \A lang \in Langs :
    validateUpdate(p[1], JStr(p[2]), lang) = Accept(p[2])

\* The positions of the rejected entries, tabulated over the inputs
RejectedOf ==
  [c \in Contents, lang \in Langs |->
     IF llmPlan(c).threw THEN {} ELSE Rejected(llmPlan(c), lang)]

Last(S) == CHOOSE i \in S : \A j \in S : j <= i

\* C1: every (key, value) of every Session's answers is the normalized result
\* of an accepted validateUpdate of a value the planner proposed for that key,
\* and validateUpdate accepts the stored value for that key unchanged.
C1_AnswersValidated ==
  /\ \A c \in DOMAIN SESSIONS : \A k \in DOMAIN Answers(c) :
       <<k, Answers(c)[k]>> \in AcceptedPairs
  /\ AcceptedPairsAccepted

\* A session holds a normalized phone after a turn that also rejected a value
C1_Witness ==
  \E t \in Turns :
    /\ merges[t] = 1
    /\ local[t].badPrompt # <<>>
    /\ DOMAIN Answers(local[t].convId) # {}
    /\ \E c \in DOMAIN SESSIONS :
         /\ "phone" \in DOMAIN Answers(c)
         /\ Answers(c)["phone"] = <<"9", "8", "7", "6", "5", "4", "3", "2", "1", "0">>

\* C2: when the planner request throws, the turn goes on with the defaults
\* and the caller receives the reply "Okay." with a successful outcome.
C2_PlannerFailureDefaults ==
  \A t \in Turns :
    (pc[t] = "done" /\ local[t].error = "planner") =>
      /\ IsSuccess(res[t])
      /\ DeliveredReply(res[t]) = <<"Okay.">>

\* C3: for every shape of response body that returns without throwing, no
\* error is raised, each missing or wrong-shaped property of the plan has its
\* default, and for a non-object body the turn replies "Okay." and merges
\* nothing.
C3_MalformedPlanDefaults ==
  \A t \in Turns :
    local[t].content.k # "none" =>
      LET c == local[t].content
          isObj == c.k = "json" /\ c.v.t = "obj"
          u == IF isObj THEN GetProp(c.v, "updates") ELSE Undefined
          a == IF isObj THEN GetProp(c.v, "assistant_text") ELSE Undefined
          n == IF isObj THEN GetProp(c.v, "next_field") ELSE Undefined
          d == IF isObj THEN GetProp(c.v, "done") ELSE Undefined
      IN  /\ local[t].error = ""
          /\ ~local[t].plan.threw
          /\ u.t # "obj" => local[t].plan.updates = JObj(<<>>)
          /\ a.t # "str" => local[t].plan.assistant_text = <<"Okay.">>
          /\ n.t # "str" => local[t].plan.next_field = <<>>
          /\ d.t # "bool" => local[t].plan.done = FALSE
          /\ ~isObj => local[t].validated = EmptyObject
          /\ (~isObj /\ pc[t] = "done") =>
               /\ IsSuccess(res[t])
               /\ DeliveredReply(res[t]) = <<"Okay.">>

\* C4: in a turn with a rejected update the reply delivered is the corrective
\* prompt of the last rejected update in the order of the plan's updates, in
\* the turn's language.
C4_LastRejectionWins ==
  \A t \in Turns :
    (pc[t] = "done" /\ local[t].error = "") =>
      LET e == Entries(local[t].plan.updates)
          rej == RejectedOf[local[t].content, local[t].langHint]
      IN  rej # {} =>
            /\ IsSuccess(res[t])
            /\ DeliveredReply(res[t]) = PromptTable[e[Last(rej)][1]][local[t].langHint]

\* A Hindi turn with two rejections of different prompts, two accepted
\* updates and a planner text has replied
C4_Witness ==
  \E t \in Turns :
    /\ pc[t] = "done"
    /\ local[t].error = ""
    /\ local[t].langHint = "hi"
    /\ local[t].plan.assistant_text = <<"Noted.">>
    /\ Cardinality(RejectedOf[local[t].content, "hi"]) = 2
    /\ Cardinality(DOMAIN local[t].validated) = 2
    /\ DeliveredReply(res[t]) = <<"hi: mode prompt">>

\* C5: whatever sink calls of a turn fail, the turn answers with success, with
\* the reply its plan determines and the answers of its Session, and no sink
\* step changes a Session.
C5_SinkFailuresSwallowed ==
  [][\A t \in Turns :
       (pc[t] \in SinkSteps /\ pc'[t] # pc[t]) =>
         /\ SESSIONS' = SESSIONS
         /\ pc'[t] = "done" =>
              /\ IsSuccess(res'[t])
              /\ DeliveredReply(res'[t]) =
                   ComposeReply(ValidateAll(local[t].plan.updates, local[t].langHint).badPrompt,
                                local[t].plan.assistant_text)
              /\ res'[t].kind = "json" =>
                   res'[t].body.answers = Answers(local[t].convId)]_vars

\* A turn whose presales append and whose lead upsert both failed has replied
C5_Witness ==
  \E t \in Turns :
    /\ pc[t] = "done"
    /\ IsSuccess(res[t])
    /\ Cardinality({i \in 1..Len(io[t]) : ~io[t][i].ok}) = 2

\* C6: whenever a turn of conversation c completes with the sink enabled, the
\* fixed lead row holds c's id and the full answers of c's Session.
C6_LeadRowReflectsAnswers ==
  [][\A t \in Turns :
       (sheets /\ pc[t] # "done" /\ pc'[t] = "done" /\ local'[t].error = "") =>
         leads' = composeLeadRow(local'[t].convId, SESSIONS'[local'[t].convId].answers)]_vars

\* C7: in both variants an exception in the turn pipeline is answered with a
\* non-success status and without a reply.
C7_ExceptionsSurfaceAsFailure ==
  \A t \in Turns :
    (pc[t] = "done" /\ local[t].error # "") =>
      /\ res[t].status >= 400
      /\ ~IsSuccess(res[t])

\* C8: a turn merges at most once, and a step that changes a Session's answers
\* is the one merge of one turn of that conversation, which assigns all the
\* accepted updates of that turn's plan together; a new Session starts empty.
C8_MergeAtomic ==
  [][/\ \A t \in Turns : merges'[t] <= 1
     /\ \A c \in DOMAIN SESSIONS' :
          IF c \notin DOMAIN SESSIONS THEN SESSIONS'[c].answers = EmptyObject
          ELSE SESSIONS'[c] # SESSIONS[c] =>
                 \E t \in Turns :
                   /\ local[t].convId = c
                   /\ pc[t] = "llm"
                   /\ merges[t] = 0 /\ merges'[t] = 1
                   /\ SESSIONS'[c].answers =
                        ObjectAssign(SESSIONS[c].answers,
                          ValidateAll(local'[t].plan.updates, local[t].langHint).validated)]_vars

\* A turn has merged two accepted updates while another turn of the same
\* conversation is in flight
C8_Witness ==
  \E t, o \in Turns :
    /\ t # o
    /\ merges[t] = 1
    /\ Cardinality(DOMAIN local[t].validated) >= 2
    /\ local[o].convId = local[t].convId
    /\ pc[o] \in {"llm"} \cup SinkSteps

\* C9: a step of a turn changes no Session but that of its own conversation,
\* the reply of a turn is the one its own plan determines, the answers it
\* returns are those of its own Session, and every value of a Session was
\* accepted in a turn of that conversation.
C9_NoCrossConversation ==
  /\ [][\A t \in Turns :
          pc'[t] # pc[t] =>
            /\ \A c \in DOMAIN SESSIONS :
                 c # local'[t].convId => SESSIONS'[c] = SESSIONS[c]
            /\ (pc'[t] = "done" /\ IsSuccess(res'[t])) =>
                 DeliveredReply(res'[t]) =
                   ComposeReply(ValidatedOf[local[t].content, local[t].langHint].badPrompt,
                                local[t].plan.assistant_text)
            /\ (pc'[t] = "done" /\ res'[t].kind = "json" /\ IsSuccess(res'[t])) =>
                 /\ res'[t].body.convId = local[t].convId
                 /\ res'[t].body.answers = SESSIONS'[local[t].convId].answers]_vars
  /\ [](\A c \in DOMAIN SESSIONS : \A k \in DOMAIN Answers(c) :
          \E t \in Turns :
            /\ local[t].convId = c
            /\ merges[t] = 1
            /\ k \in DOMAIN local[t].validated
            /\ local[t].validated[k] = Answers(c)[k])

\* Two turns of different conversations have merged different answers
C9_Witness ==
  \E t, o \in Turns :
    /\ local[t].convId # local[o].convId
    /\ merges[t] = 1 /\ merges[o] = 1
    /\ DOMAIN Answers(local[t].convId) # {}
    /\ DOMAIN Answers(local[o].convId) # {}
    /\ Answers(local[t].convId) # Answers(local[o].convId)

\* C10: a conversation id keeps its Session, a key of a Session's answers
\* stays, its value changes only to a value accepted for that key by the
\* turn that merges, and receiving a request for an existing conversation
\* leaves its answers as they are.
C10_StoreNeverShrinks ==
  [][\A c \in DOMAIN SESSIONS :
       /\ c \in DOMAIN SESSIONS'
       /\ \A k \in DOMAIN SESSIONS[c].answers :
            /\ k \in DOMAIN SESSIONS'[c].answers
            /\ SESSIONS'[c].answers[k] # SESSIONS[c].answers[k] =>
                 \E t \in Turns :
                   /\ pc[t] = "llm" /\ merges'[t] = merges[t] + 1
                   /\ local[t].convId = c
                   /\ \E i \in 1..Len(Entries(local'[t].plan.updates)) :
                        /\ Entries(local'[t].plan.updates)[i][1] = k
                        /\ validateUpdate(k, Entries(local'[t].plan.updates)[i][2],
                                          local[t].langHint)
                             = Accept(SESSIONS'[c].answers[k])]_vars

\* A request was received for a conversation that had answers, and its turn
\* has overwritten the phone an earlier turn had stored
C10_Witness ==
  \E t, o \in Turns :
    /\ t # o
    /\ local[t].convId = local[o].convId
    /\ "phone" \in DOMAIN local[t].knownAnswers
    /\ merges[t] = 1
    /\ "phone" \in DOMAIN local[t].validated
    /\ "phone" \in DOMAIN local[o].validated
    /\ local[t].validated["phone"] # local[o].validated["phone"]
    /\ Answers(local[t].convId)["phone"] = local[t].validated["phone"]

\* The outcomes of the sink calls of two turns agree as far as both got
SameOutcomes(t, o) ==
  \A i \in 1..Len(io[t]) : i <= Len(io[o]) => io[t][i].ok = io[o][i].ok

\* C11: a streaming turn and a synchronous turn that find the same answers in
\* their Session and get the same planner output and language tag accept the
\* same updates, compose the same reply and, where their sink calls end alike,
\* issue the same sink calls; the merge of either assigns the accepted updates
\* to the answers it found; the streaming turn answers with exactly one data
\* event of reply and convId, the synchronous one with a body of reply, convId
\* and answers.
C11_VariantsAgree ==
  /\ [](\A t, o \in Turns :
          ( /\ local[t].resStream /\ ~local[o].resStream
            /\ merges[t] = 1 /\ merges[o] = 1
            /\ local[t].content = local[o].content
            /\ local[t].langHint = local[o].langHint
            /\ local[t].before = local[o].before ) =>
            /\ local[t].validated = local[o].validated
            /\ local[t].badPrompt = local[o].badPrompt
            /\ local[t].phoneClean = local[o].phoneClean
            /\ (pc[t] # "presales" /\ pc[o] # "presales") =>
                 local[t].reply = local[o].reply
            /\ (pc[t] = "done" /\ pc[o] = "done" /\ SameOutcomes(t, o)) =>
                 /\ io[t] = io[o]
                 /\ DeliveredReply(res[t]) = DeliveredReply(res[o]))
  /\ [][\A t \in Turns :
          (merges[t] = 0 /\ merges'[t] = 1) =>
            /\ local'[t].before = SESSIONS[local[t].convId].answers
            /\ SESSIONS'[local[t].convId].answers =
                 ObjectAssign(local'[t].before, local'[t].validated)]_vars
  /\ [](\A t \in Turns :
          (pc[t] = "done" /\ local[t].error = "") =>
            /\ res[t].status = 200
            /\ IF local[t].resStream
                 THEN /\ res[t].kind = "sse"
                      /\ res[t].body =
                           << [data |-> [reply |-> local[t].reply,
                                         convId |-> local[t].convId]] >>
                 ELSE /\ res[t].kind = "json"
                      /\ DOMAIN res[t].body = {"reply", "convId", "answers"}
                      /\ res[t].body.reply = local[t].reply
                      /\ res[t].body.convId = local[t].convId)

\* A streaming and a synchronous turn with the same Hindi plan, which holds
\* accepted and rejected updates, have both replied after the same sink calls
C11_Witness ==
  \E t, o \in Turns :
    /\ local[t].resStream /\ ~local[o].resStream
    /\ pc[t] = "done" /\ pc[o] = "done"
    /\ local[t].content = local[o].content
    /\ local[t].langHint = "hi" /\ local[o].langHint = "hi"
    /\ local[t].before = local[o].before
    /\ local[t].validated # EmptyObject
    /\ local[t].badPrompt # <<>>
    /\ Len(io[t]) = 3
    /\ io[t] = io[o]
    /\ DeliveredReply(res[t]) = DeliveredReply(res[o])

\* C12: for key phone, a value whose digits are exactly 10 is accepted with
\* those digits; a value whose digits are exactly 12 and start with 91 is
\* accepted with the last 10 of them; every other value is rejected with the
\* phone prompt of the language.
C12_PhoneNormalised ==
  (probe.called /\ probe.key = "phone") =>
    LET d == probe.digits
    IN  IF Len(d) = 10 THEN probe.r = [ok |-> TRUE, value |-> d]
        ELSE IF Len(d) = 12 /\ d[1] = "9" /\ d[2] = "1"
          THEN probe.r = [ok |-> TRUE, value |-> SubSeq(d, 3, 12)]
        ELSE probe.r = [ok |-> FALSE, prompt |-> PromptTable.phone[probe.lang]]

\* A phone written with "+", country code 91 and spaces was accepted with its
\* last ten digits
C12_Witness ==
  /\ probe.called
  /\ probe.key = "phone"
  /\ probe.raw.t = "str"
  /\ Len(probe.raw.s) = 15
  /\ probe.raw.s[1] = "+"
  /\ Len(probe.digits) = 12
  /\ probe.r.ok
  /\ probe.r.value = SubSeq(probe.digits, 3, 12)

\* C13 as stated: every integer g of 1..12 written anywhere in the value of
\* key grade, other digit runs around it or not, is accepted as the decimal
\* string of g, and a value whose number is 0 or 13 or that has no digit is
\* rejected.
C13_GradeAnywhere ==
  (probe.called /\ probe.key = "grade") =>
    /\ probe.g \in 1..12 => probe.r = [ok |-> TRUE, value |-> IntToString(probe.g)]
    /\ (probe.g \in {0, 13} \/ probe.runs = <<>>) =>
         probe.r = [ok |-> FALSE, prompt |-> PromptTable.grade[probe.lang]]

\* C13: a value of key grade whose first run of digits is an integer g of
\* 1..12, whatever stands before it and whatever follows it, later digit runs
\* included, is accepted as the decimal string of g; a value whose first run
\* of digits is 0 or more than 12, or that has no digit, is rejected with the
\* grade prompt of the language.
C13_GradeFirstRun ==
  (probe.called /\ probe.key = "grade") =>
    IF probe.runs # <<>> /\ probe.runs[1] \in 1..12
      THEN probe.r = [ok |-> TRUE, value |-> IntToString(probe.runs[1])]
      ELSE probe.r = [ok |-> FALSE, prompt |-> PromptTable.grade[probe.lang]]

\* "Class 7 of 13" was accepted as "7"
C13_Witness ==
  /\ probe.called
  /\ probe.key = "grade"
  /\ probe.raw.t = "str"
  /\ probe.runs = <<7, 13>>
  /\ probe.raw.s[1] = "C"
  /\ probe.r = [ok |-> TRUE, value |-> <<"7">>]

\* The <<key, normalized value>> pairs of the accepted entries of a planner
\* output, tabulated over the inputs
AcceptedOf ==
  [c \in Contents, lang \in Langs |->
     IF llmPlan(c).threw THEN {}
     ELSE { <<e[1], validateUpdate(e[1], e[2], lang).value>> :
              e \in {x \in Range(Entries(llmPlan(c).updates)) :
                       validateUpdate(x[1], x[2], lang).ok} }]

\* Turn t runs line 276 in this step
Merging(t) == merges[t] = 0 /\ merges'[t] = 1

C15_RejectedUntouched ==
  [][\A t \in Turns :
       Merging(t) =>
         \A i \in RejectedOf[local'[t].content, local[t].langHint] :
           LET k == Entries(local'[t].plan.updates)[i][1]
               old == SESSIONS[local[t].convId].answers
               new == SESSIONS'[local[t].convId].answers
           IN  /\ (k \in DOMAIN new) = (k \in DOMAIN old)
               /\ k \in DOMAIN old => new[k] = old[k]]_vars

\* A turn whose plan proposed the area "NEET" found the area Madhapur of an
\* earlier turn, rejected the update, and the area is still Madhapur
C15_Witness ==
  \E t \in Turns :
    /\ merges[t] = 1
    /\ local[t].plan.updates = JObj(<< <<"area", JStr(Txt_NEET)>> >>)
    /\ local[t].badPrompt # <<>>
    /\ "area" \in DOMAIN local[t].before
    /\ local[t].before["area"] = Txt_Madhapur
    /\ Answers(local[t].convId)["area"] = Txt_Madhapur

\* C16: in a turn whose plan has a rejected update the merge still assigns
\* every accepted update of the plan, those after the rejection included, and
\* the turn merges once.
C16_RejectionDoesNotBlock ==
  [][\A t \in Turns :
       /\ merges'[t] <= 1
       /\ (Merging(t) /\ RejectedOf[local'[t].content, local[t].langHint] # {}) =>
            /\ local'[t].badPrompt # <<>>
            /\ \A p \in AcceptedOf[local'[t].content, local[t].langHint] :
                 /\ p[1] \in DOMAIN SESSIONS'[local[t].convId].answers
                 /\ SESSIONS'[local[t].convId].answers[p[1]] = p[2]]_vars

\* A turn with two rejected updates has merged the accepted grade before
\* them and the accepted student name after them
C16_Witness ==
  \E t \in Turns :
    /\ merges[t] = 1
    /\ Cardinality(RejectedOf[local[t].content, local[t].langHint]) = 2
    /\ "grade" \in DOMAIN Answers(local[t].convId)
    /\ "student_name" \in DOMAIN Answers(local[t].convId)
    /\ Answers(local[t].convId)["grade"] = <<"7">>
    /\ Answers(local[t].convId)["student_name"] = <<"R", "a", "v", "i">>

\* C17: the planner call of a turn carries the answers its Session had when
\* the request was received, whatever another turn merges while the call is
\* in flight; each turn's merge writes its own accepted values over what the
\* Session holds and leaves the other keys, so for a key two turns of a
\* conversation accept the value is that of the merge that ran last.
C17_LastMergeWins ==
  [][\A t \in Turns :
       /\ (pc[t] = "idle" /\ pc'[t] = "llm") =>
            local'[t].knownAnswers = SESSIONS'[local'[t].convId].answers
       /\ pc[t] # "idle" => local'[t].knownAnswers = local[t].knownAnswers
       /\ Merging(t) =>
            LET old == SESSIONS[local[t].convId].answers
                new == SESSIONS'[local[t].convId].answers
                mine == AcceptedOf[local'[t].content, local[t].langHint]
            IN  /\ \A p \in mine : p[1] \in DOMAIN new /\ new[p[1]] = p[2]
                /\ \A k \in DOMAIN old :
                     k \notin {p[1] : p \in mine} => k \in DOMAIN new /\ new[k] = old[k]]_vars

\* Two turns of one conversation were both planned with the empty answers and
\* accepted different phones; the phone is that of the turn received first,
\* whose merge ran last
C17_Witness ==
  \E t, o \in Turns :
    /\ t < o
    /\ local[t].convId = local[o].convId
    /\ merges[t] = 1 /\ merges[o] = 1
    /\ local[t].knownAnswers = EmptyObject /\ local[o].knownAnswers = EmptyObject
    /\ "phone" \in DOMAIN local[t].validated
    /\ "phone" \in DOMAIN local[o].validated
    /\ local[t].validated["phone"] # local[o].validated["phone"]
    /\ "phone" \in DOMAIN local[t].before
    /\ local[t].before["phone"] = local[o].validated["phone"]
    /\ Answers(local[t].convId)["phone"] = local[t].validated["phone"]

\* The same race with the other end: the phone is that of the turn received
\* last
C17_WitnessOther ==
  \E t, o \in Turns :
    /\ t < o
    /\ local[t].convId = local[o].convId
    /\ merges[t] = 1 /\ merges[o] = 1
    /\ local[t].knownAnswers = EmptyObject /\ local[o].knownAnswers = EmptyObject
    /\ "phone" \in DOMAIN local[t].validated
    /\ "phone" \in DOMAIN local[o].validated
    /\ local[t].validated["phone"] # local[o].validated["phone"]
    /\ "phone" \in DOMAIN local[o].before
    /\ local[o].before["phone"] = local[t].validated["phone"]
    /\ Answers(local[t].convId)["phone"] = local[o].validated["phone"]

\* C18 as stated: every key of every Session's answers, and of the answers a
\* turn returns, is one of the ten keys of FIELDS_SPEC.
C18_KeysInSchema ==
  /\ \A c \in DOMAIN SESSIONS : DOMAIN Answers(c) \subseteq Range(FIELDS_SPEC)
  /\ \A t \in Turns :
       (pc[t] = "done" /\ IsSuccess(res[t]) /\ res[t].kind = "json") =>
         DOMAIN res[t].body.answers \subseteq Range(FIELDS_SPEC)

\* C19: a value a turn merged for a key that no other merged turn of the
\* conversation accepted is in the Session's answers, whatever the order of
\* the merges: turns that accept disjoint keys lose no update.
C19_NoLostUpdate ==
  \A t \in Turns :
    merges[t] = 1 =>
      \A k \in DOMAIN local[t].validated :
        (\A u \in Turns \ {t} :
           (merges[u] = 1 /\ local[u].convId = local[t].convId) =>
             k \notin DOMAIN local[u].validated) =>
          /\ k \in DOMAIN Answers(local[t].convId)
          /\ Answers(local[t].convId)[k] = local[t].validated[k]

\* Two turns of one conversation, both planned with the empty answers, have
\* merged disjoint keys and the Session holds the keys of both
C19_Witness ==
  \E t, o \in Turns :
    /\ t # o
    /\ local[t].convId = local[o].convId
    /\ merges[t] = 1 /\ merges[o] = 1
    /\ local[t].knownAnswers = EmptyObject /\ local[o].knownAnswers = EmptyObject
    /\ DOMAIN local[t].validated = {"phone"}
    /\ DOMAIN local[o].validated = {"grade", "area"}
    /\ DOMAIN Answers(local[t].convId) = {"phone", "grade", "area"}

\* The calls of the try block of lines 285-291 that turn t awaited
Chain(t) == SelectSeq(io[t], LAMBDA e : e.call # "presales")

====
